---- MODULE Spec2Model ----
(***************************************************************************)
(* greedypacker: the Skyline placement engine (skyline.py) and the         *)
(* multi-bin BinManager (binmanager.py).                                   *)
(*                                                                         *)
(* Python objects are modelled by value: an Item is a record kept in the   *)
(* heap `objs` and named by its index, so that the manager's item list and *)
(* the bins' item lists can hold the same object, as they do in the code.  *)
(* Item (item.py) and the Guillotine engine used as the wastemap           *)
(* (guillotine.py) are not part of the sources at hand; they are modelled  *)
(* from the design document and marked as such.                            *)
(***************************************************************************)
EXTENDS Integers, Sequences, FiniteSets, TLC

VARIABLES
    cfg,      \* constructor arguments of the engine / manager
    objs,     \* heap of Item objects, in creation order
    bins,     \* the engines: the manager's self.bins, or the one engine under test
    mitems,   \* BinManager.items: indices into objs
    pc,       \* execute(): 0 when not running, else the index of the next item
    nexec,    \* number of execute() calls started
    log,      \* every engine insert call made so far, with its outcome
    result    \* outcome of the last public call

vars == <<cfg, objs, bins, mitems, pc, nexec, log, result>>

---------------------------------------------------------------------------
(* Bounds of the exploration *)

\* largest item side offered to the small bin
MaxDim == 2
\* number of Item objects ever created
MaxItems == 4
\* number of Item objects ever given to one manager
MaxManagerItems == 4
\* number of execute() calls on one manager
MaxExecutes == 2

---------------------------------------------------------------------------
(* Generic helpers *)

Max(a, b) == IF a >= b THEN a ELSE b

Min(a, b) == IF a <= b THEN a ELSE b

\* Python tuple comparison of two pairs
PairLess(p, q) == p[1] < q[1] \/ (p[1] = q[1] /\ p[2] < q[2])

\* a minimum that keeps the last of the minimal keys
RECURSIVE ArgMinFromLast(_, _, _)
ArgMinFromLast(keys, i, best) ==
    IF i > Len(keys) THEN best
    ELSE ArgMinFromLast(keys, i + 1, IF PairLess(keys[best], keys[i]) THEN best ELSE i)

\* Python's min(seq, key=...) over pair keys: index of the first minimal key
RECURSIVE ArgMinFrom(_, _, _)
ArgMinFrom(keys, i, best) ==
    IF i > Len(keys) THEN best
    ELSE ArgMinFrom(keys, i + 1, IF PairLess(keys[i], keys[best]) THEN i ELSE best)

ArgMin(keys) == ArgMinFrom(keys, 2, 1)

---------------------------------------------------------------------------
(* Item (item.py; modelled from the design document) *)

\* a new Item: position is meaningless until the item is placed
Item(w, h) == [width |-> w, height |-> h, x |-> 0, y |-> 0, rotated |-> FALSE]

\* Item.rotate(): swap width and height, toggle the flag
rotate(item) ==
    [item EXCEPT !.width = item.height, !.height = item.width, !.rotated = ~item.rotated]

---------------------------------------------------------------------------
(* SkylineSegment and the SortedList that holds the skyline *)

SkylineSegment(x, y, width) == [x |-> x, y |-> y, width |-> width]

\* tuple order of the NamedTuple (x, y, width)
SegLess(a, b) ==
    \/ a.x < b.x
    \/ a.x = b.x /\ a.y < b.y
    \/ a.x = b.x /\ a.y = b.y /\ a.width < b.width

\* SortedList.add: insert after the elements that are not greater
SortedAdd(list, seg) ==
    LET k == Cardinality({i \in 1..Len(list) : ~SegLess(seg, list[i])})
    IN  SubSeq(list, 1, k) \o <<seg>> \o SubSeq(list, k + 1, Len(list))

\* SortedList.update: add every element of segs
RECURSIVE SortedUpdate(_, _)
SortedUpdate(list, segs) ==
    IF segs = <<>> THEN list
    ELSE SortedUpdate(SortedAdd(list, Head(segs)), Tail(segs))

\* SortedList.remove of an element that is present
SortedRemove(list, seg) ==
    LET k == CHOOSE i \in 1..Len(list) : list[i] = seg
    IN  SubSeq(list, 1, k - 1) \o SubSeq(list, k + 1, Len(list))

---------------------------------------------------------------------------
(* Guillotine engine in its role as wastemap (guillotine.py; modelled from *)
(* the design document, sections 4.2 and 4.5).  Only its free rectangles   *)
(* are kept: they are all that the Skyline engine reads or writes.         *)

FreeRectangle(width, height, x, y) == [width |-> width, height |-> height, x |-> x, y |-> y]

\* two free rectangles with identical widths and a shared horizontal edge, or
\* identical heights and a shared vertical edge
CanMerge(a, b) ==
    \/ a.width = b.width /\ a.x = b.x /\ (a.y + a.height = b.y \/ b.y + b.height = a.y)
    \/ a.height = b.height /\ a.y = b.y /\ (a.x + a.width = b.x \/ b.x + b.width = a.x)

Fuse(a, b) ==
    IF a.width = b.width /\ a.x = b.x
    THEN FreeRectangle(a.width, a.height + b.height, a.x, Min(a.y, b.y))
    ELSE FreeRectangle(a.width + b.width, a.height, Min(a.x, b.x), a.y)

\* Guillotine.rectangle_merge(): fuse pairs until no pair can be fused
RECURSIVE rectangle_merge(_)
rectangle_merge(freerects) ==
    LET n == Len(freerects)
        pairs == {p \in (1..n) \X (1..n) : p[1] < p[2] /\ CanMerge(freerects[p[1]], freerects[p[2]])}
    IN  IF pairs = {} THEN freerects
        ELSE LET p == CHOOSE q \in pairs : \A r \in pairs : q = r \/ PairLess(q, r)
                 rest == SelectSeq([i \in 1..n |-> <<i, freerects[i]>>],
                                   LAMBDA e : e[1] # p[1] /\ e[1] # p[2])
             IN  rectangle_merge([i \in 1..Len(rest) |-> rest[i][2]]
                                 \o <<Fuse(freerects[p[1]], freerects[p[2]])>>)

\* the candidates of Guillotine.insert, in the order they are met: every free
\* rectangle, upright then rotated; the score is best_area
RECURSIVE GuillotineCandidates(_, _, _, _)
GuillotineCandidates(freerects, rotation, item, i) ==
    IF i > Len(freerects) THEN <<>>
    ELSE LET fr == freerects[i]
             score == fr.width * fr.height - item.width * item.height
             upright == IF item.width <= fr.width /\ item.height <= fr.height
                        THEN <<[score |-> <<score, 0>>, rect |-> i, rot |-> FALSE]>> ELSE <<>>
             turned == IF rotation /\ item.height <= fr.width /\ item.width <= fr.height
                       THEN <<[score |-> <<score, 0>>, rect |-> i, rot |-> TRUE]>> ELSE <<>>
         IN  upright \o turned \o GuillotineCandidates(freerects, rotation, item, i + 1)

\* the two rectangles left of a free rectangle once the item sits in its corner;
\* `horizontal` is the axis the configured split rule picks; empty ones are dropped
GuillotineSplit(fr, item, horizontal) ==
    LET w == fr.width - item.width
        h == fr.height - item.height
        top == FreeRectangle(IF horizontal THEN fr.width ELSE item.width, h,
                             fr.x, fr.y + item.height)
        right == FreeRectangle(w, IF horizontal THEN item.height ELSE fr.height,
                               fr.x + item.width, fr.y)
    IN  SelectSeq(<<top, right>>, LAMBDA r : r.width > 0 /\ r.height > 0)

\* Guillotine.insert once the best candidate is known: remove its rectangle,
\* place the item in its corner, split the remainder, merge
GuillotinePlace(freerects, placed, rect, horizontal, merge) ==
    LET rest == SubSeq(freerects, 1, rect - 1) \o SubSeq(freerects, rect + 1, Len(freerects))
        split == rest \o GuillotineSplit(freerects[rect], placed, horizontal)
    IN  [res |-> TRUE,
         freerects |-> IF merge THEN rectangle_merge(split) ELSE split,
         item |-> placed]

\* the item as the chosen candidate places it
GuillotinePlaced(freerects, item, best) ==
    LET turned == IF best.rot THEN rotate(item) ELSE item
    IN  [turned EXCEPT !.x = freerects[best.rect].x, !.y = freerects[best.rect].y]

\* Guillotine.insert, given its candidates
GuillotineChoose(freerects, item, cands, horizontal, merge) ==
    IF cands = <<>> THEN [res |-> FALSE, freerects |-> freerects, item |-> item]
    ELSE GuillotinePlace(freerects,
             GuillotinePlaced(freerects, item,
                 cands[ArgMin([k \in 1..Len(cands) |-> cands[k].score])]),
             cands[ArgMin([k \in 1..Len(cands) |-> cands[k].score])].rect,
             horizontal, merge)

\* Guillotine.insert(item, 'best_area'): the outcome, the free rectangles and the
\* item afterwards.  `horizontal` and `merge` stand for the split rule and the
\* rectangle_merge option the wastemap was constructed with.
GuillotineInsert(freerects, rotation, item, horizontal, merge) ==
    GuillotineChoose(freerects, item, GuillotineCandidates(freerects, rotation, item, 1),
                     horizontal, merge)

---------------------------------------------------------------------------
(* Skyline engine (skyline.py) *)

\* Skyline.__init__ with a known heuristic
Skyline(width, height, rotation, wastemap, heuristic) ==
    [width |-> width, height |-> height,
     skyline |-> <<SkylineSegment(0, 0, width)>>,
     items |-> <<>>,
     area |-> width * height,
     free_area |-> width * height,
     rotation |-> rotation,
     use_waste_map |-> wastemap,
     freerects |-> <<>>,
     heuristic |-> heuristic]

\* Skyline._clip_segment: what is left of a segment beside the item
_clip_segment(segment, item) ==
    LET itemx == item.x
        item_end_x == itemx + item.width
        segx == segment.x
        seg_end_x == segx + segment.width
    IN  IF segx > item_end_x \/ segx + segment.width < itemx THEN <<segment>>
        ELSE IF segx >= itemx /\ seg_end_x <= item_end_x THEN <<>>
        ELSE IF segx < itemx /\ seg_end_x <= item_end_x
             THEN <<SkylineSegment(segx, segment.y, itemx - segx)>>
        ELSE IF segx >= itemx /\ segx + segment.width > item_end_x
             THEN <<SkylineSegment(item_end_x, segment.y, seg_end_x - item_end_x)>>
        ELSE IF segx < itemx /\ segx + segment.width > item_end_x
             THEN <<SkylineSegment(segx, segment.y, itemx - segx),
                    SkylineSegment(item_end_x, segment.y, seg_end_x - item_end_x)>>
        ELSE <<>>

\* Skyline._add_to_wastemap: the loop over skyline[seg_index:], from position j
RECURSIVE AddToWastemapFrom(_, _, _, _, _, _)
AddToWastemapFrom(skyline, freerects, item_left, item_right, y, j) ==
    IF j > Len(skyline) THEN freerects
    ELSE LET seg == skyline[j]
         IN  IF seg.x >= item_right \/ seg.x + seg.width <= item_left THEN freerects
             ELSE LET left_side == seg.x
                      right_side == Min(item_right, seg.x + seg.width)
                      w_width == right_side - left_side
                      w_height == y - seg.y
                      added == IF w_width > 0 /\ w_height > 0
                               THEN rectangle_merge(Append(freerects,
                                        FreeRectangle(w_width, w_height, left_side, seg.y)))
                               ELSE freerects
                  IN  AddToWastemapFrom(skyline, added, item_left, item_right, y, j + 1)

\* Skyline._add_to_wastemap: the wastemap's free rectangles afterwards
_add_to_wastemap(eng, seg_index, item, y) ==
    LET item_left == eng.skyline[seg_index].x
    IN  AddToWastemapFrom(eng.skyline, eng.freerects, item_left, item_left + item.width,
                          y, seg_index)

\* the loop of Skyline._update_segment: clip every segment, from position j
RECURSIVE ClipAllFrom(_, _, _, _)
ClipAllFrom(skyline, item, new_segments, j) ==
    IF j > Len(skyline) THEN new_segments
    ELSE ClipAllFrom(skyline, item,
                     SortedUpdate(new_segments, _clip_segment(skyline[j], item)), j + 1)

\* Skyline._update_segment, lines 103-107: the segment on top of the item
AddTopSegment(eng, segment, item, new_segments) ==
    IF item.height + item.y < eng.height
    THEN SortedAdd(new_segments, SkylineSegment(segment.x, item.y + item.height, item.width))
    ELSE new_segments

\* SortedList.index: position of the first element equal to segment
IndexOf(skyline, segment) ==
    CHOOSE i \in 1..Len(skyline) :
        /\ skyline[i] = segment
        /\ \A k \in 1..(i - 1) : skyline[k] # segment

\* Skyline._update_segment: the new segment list and the wastemap afterwards
_update_segment(eng, segment, y, item) ==
    [skyline |-> AddTopSegment(eng, segment, item, ClipAllFrom(eng.skyline, item, <<>>, 1)),
     freerects |-> IF eng.use_waste_map
                   THEN _add_to_wastemap(eng, IndexOf(eng.skyline, segment), item, y)
                   ELSE eng.freerects]

\* the loop of Skyline._merge_segments, from position j
RECURSIVE MergeFrom(_, _, _)
MergeFrom(skyline, new_segments, j) ==
    IF j > Len(skyline) THEN new_segments
    ELSE LET seg == skyline[j]
             last == new_segments[Len(new_segments)]
         IN  IF seg.y = last.y /\ seg.x = last.x + last.width
             THEN MergeFrom(skyline,
                      SortedAdd(SortedRemove(new_segments, last),
                                SkylineSegment(last.x, last.y, (seg.x + seg.width) - last.x)),
                      j + 1)
             ELSE MergeFrom(skyline, SortedAdd(new_segments, seg), j + 1)

\* Skyline._merge_segments raises IndexError on self.skyline[0] of an empty list
MergeRaises(skyline) == Len(skyline) = 0

\* Skyline._merge_segments on a non-empty list
_merge_segments(skyline) == MergeFrom(skyline, <<skyline[1]>>, 2)

\* CheckFitLoop without the height test of line 150: the height is tested
\* against the first segment only
RECURSIVE CheckFitLoopFirstOnly(_, _, _, _, _, _)
CheckFitLoopFirstOnly(skyline, height, item_height, width, y, i) ==
    IF ~(width > 0) THEN [fits |-> TRUE, y |-> y]
    ELSE LET y2 == Max(y, skyline[i].y)
             width2 == width - skyline[i].width
         IN  IF width2 > 0 /\ i + 1 = Len(skyline) + 1 THEN [fits |-> FALSE, y |-> 0]
             ELSE CheckFitLoopFirstOnly(skyline, height, item_height, width2, y2, i + 1)

\* the while loop of Skyline._check_fit; i is the 1-based position
RECURSIVE CheckFitLoop(_, _, _, _, _, _)
CheckFitLoop(skyline, height, item_height, width, y, i) ==
    IF ~(width > 0) THEN [fits |-> TRUE, y |-> y]
    ELSE LET y2 == Max(y, skyline[i].y)
             width2 == width - skyline[i].width
         IN  IF y2 + item_height > height THEN [fits |-> FALSE, y |-> 0]
             ELSE IF width2 > 0 /\ i + 1 = Len(skyline) + 1 THEN [fits |-> FALSE, y |-> 0]
             ELSE CheckFitLoop(skyline, height, item_height, width2, y2, i + 1)

\* Skyline._check_fit
_check_fit(eng, item_width, item_height, sky_index) ==
    LET x == eng.skyline[sky_index].x
        y == eng.skyline[sky_index].y
    IN  IF x + item_width > eng.width THEN [fits |-> FALSE, y |-> 0]
        ELSE IF y + item_height > eng.height THEN [fits |-> FALSE, y |-> 0]
        ELSE CheckFitLoop(eng.skyline, eng.height, item_height, item_width, y, sky_index)

\* scoreBL that scores the rotated item with its unrotated height
scoreBLUnrotated(segs, item, y, i, rotation) == <<item.height + y, segs[i].width>>

\* scoreBL
scoreBL(segs, item, y, i, rotation) ==
    IF rotation THEN <<item.width + y, segs[i].width>>
    ELSE <<item.height + y, segs[i].width>>

\* the loop of calc_waste over segs[i:], from position j
RECURSIVE CalcWasteFrom(_, _, _, _, _)
CalcWasteFrom(segs, item_left, item_right, y, j) ==
    IF j > Len(segs) THEN 0
    ELSE LET seg == segs[j]
         IN  IF seg.x >= item_right \/ seg.x + seg.width <= item_left THEN 0
             ELSE (Min(item_right, seg.x + seg.width) - seg.x) * (y - seg.y)
                  + CalcWasteFrom(segs, item_left, item_right, y, j + 1)

\* calc_waste
calc_waste(segs, item, y, i, rotation) ==
    LET item_left == segs[i].x
        item_right == IF ~rotation THEN item_left + item.width ELSE item_left + item.height
    IN  CalcWasteFrom(segs, item_left, item_right, y, i)

\* scoreBF
scoreBF(segs, item, y, i, rotation) ==
    IF rotation THEN <<calc_waste(segs, item, y, i, TRUE), item.width + y>>
    ELSE <<calc_waste(segs, item, y, i, FALSE), item.height + y>>

\* self._score, chosen by Skyline.__init__
_score(eng, item, y, i, rotation) ==
    IF eng.heuristic = "bottom_left" THEN scoreBL(eng.skyline, item, y, i, rotation)
    ELSE scoreBF(eng.skyline, item, y, i, rotation)

\* Skyline._find_best_score, lines 192-200: the tuple appended for segment i and
\* one orientation, given what _check_fit returned for it
Candidate(eng, item, i, rot, fit) ==
    IF fit.fits
    THEN <<[score |-> _score(eng, item, fit.y, i, rot), seg |-> eng.skyline[i],
            y |-> fit.y, rot |-> rot]>>
    ELSE <<>>

\* the list `segs` of Skyline._find_best_score, built from segment i on
RECURSIVE FitCandidates(_, _, _)
FitCandidates(eng, item, i) ==
    IF i > Len(eng.skyline) THEN <<>>
    ELSE Candidate(eng, item, i, FALSE, _check_fit(eng, item.width, item.height, i))
         \o (IF eng.rotation
             THEN Candidate(eng, item, i, TRUE, _check_fit(eng, item.height, item.width, i))
             ELSE <<>>)
         \o FitCandidates(eng, item, i + 1)

\* Skyline._find_best_score, lines 201-205: min(segs, key=score);
\* found = FALSE stands for (None, None, None, False)
BestOf(segs) ==
    IF segs = <<>> THEN [found |-> FALSE]
    ELSE LET best == ArgMin([k \in 1..Len(segs) |-> segs[k].score])
         IN  [found |-> TRUE, score |-> segs[best].score, seg |-> segs[best].seg,
              rot |-> segs[best].rot, y |-> segs[best].y]

\* Skyline._find_best_score
_find_best_score(eng, item) == BestOf(FitCandidates(eng, item, 1))

\* InsertWastemap that leaves free_area alone
InsertWastemapNoArea(eng, id, w) ==
    [res |-> "True", via |-> "wastemap",
     eng |-> [eng EXCEPT !.freerects = w.freerects, !.items = Append(@, id)],
     item |-> w.item]

\* Skyline.insert, lines 215-218: the wastemap took the item (w is what
\* wastemap.insert returned)
InsertWastemap(eng, id, w) ==
    [res |-> "True", via |-> "wastemap",
     eng |-> [eng EXCEPT !.freerects = w.freerects,
                         !.items = Append(@, id),
                         !.free_area = @ - w.item.width * w.item.height],
     item |-> w.item]

\* Skyline.insert, lines 225-229, given what _update_segment returned;
\* _merge_segments raises on an empty skyline, after the assignments before it
InsertCommit(eng, id, placed, upd) ==
    LET eng2 == [eng EXCEPT !.items = Append(@, id),
                            !.free_area = @ - placed.width * placed.height,
                            !.skyline = upd.skyline,
                            !.freerects = upd.freerects]
    IN  IF MergeRaises(upd.skyline)
        THEN [res |-> "IndexError", via |-> "skyline", eng |-> eng2, item |-> placed]
        ELSE [res |-> "True", via |-> "skyline",
              eng |-> [eng2 EXCEPT !.skyline = _merge_segments(@)],
              item |-> placed]

\* Skyline.insert, lines 222-224: the item rotated and positioned
InsertPlaced(item, best) ==
    LET turned == IF best.rot THEN rotate(item) ELSE item
    IN  [turned EXCEPT !.x = best.seg.x, !.y = best.y]

\* InsertBest that hands the item back turned when nothing fits
InsertBestTurning(eng, id, item, best) ==
    IF ~best.found THEN [res |-> "False", via |-> "none", eng |-> eng, item |-> rotate(item)]
    ELSE InsertCommit(eng, id, InsertPlaced(item, best),
                      _update_segment(eng, best.seg, best.y, InsertPlaced(item, best)))

\* Skyline.insert, lines 221-230, given what _find_best_score returned
InsertBest(eng, id, item, best) ==
    IF ~best.found THEN [res |-> "False", via |-> "none", eng |-> eng, item |-> item]
    ELSE InsertCommit(eng, id, InsertPlaced(item, best),
                      _update_segment(eng, best.seg, best.y, InsertPlaced(item, best)))

\* Skyline.insert, lines 220-230: placement on the skyline
InsertSkyline(eng, id, item) == InsertBest(eng, id, item, _find_best_score(eng, item))

\* Skyline.insert, lines 214-230, given what wastemap.insert returned
InsertAfterWastemap(eng, id, item, w) ==
    IF w.res THEN InsertWastemap(eng, id, w) ELSE InsertSkyline(eng, id, item)

\* Skyline.insert: the outcome ("True", "False" or the exception raised), the
\* engine and the item afterwards.  id is the item's place in the heap.  An
\* engine built with wastemap=False has no attribute `wastemap`, so reading it
\* on line 213 raises AttributeError.
insert(eng, id, item, horizontal, merge) ==
    IF ~eng.use_waste_map
    THEN [res |-> "AttributeError", via |-> "none", eng |-> eng, item |-> item]
    ELSE InsertAfterWastemap(eng, id, item,
             GuillotineInsert(eng.freerects, eng.rotation, item, horizontal, merge))

\* one entry of the call log
LogInsert(b, id, item, r) ==
    [op |-> "insert", bin |-> b, item |-> id, width |-> item.width,
     height |-> item.height, res |-> r.res, via |-> r.via]

LogScore(b, id, item, found) ==
    [op |-> "score", bin |-> b, item |-> id, width |-> item.width,
     height |-> item.height, res |-> IF found THEN "found" ELSE "None", via |-> "none"]

---------------------------------------------------------------------------
(* Workloads: the bins explored and the item sizes offered to each *)

\* two small bins explored with every item size up to MaxDim; the bins of the
\* documented scenarios S3 (5 x 10) and S5 (4 x 4) are given the scenario's items
WideBin == <<4, 2>>

SquareBin == <<3, 3>>

\* a bin on which four items suffice to exceed the bin's area
LongBin == <<6, 3>>

LongItems == {<<1, 1>>, <<3, 3>>, <<3, 2>>, <<1, 3>>}

S3Bin == <<5, 10>>

S5Bin == <<4, 4>>

S3Items == {<<3, 5>>, <<5, 3>>, <<2, 2>>}

S5Items == {<<3, 3>>, <<4, 4>>, <<2, 2>>}

\* item sizes offered to an engine under test
SizesFor(c) ==
    IF <<c.bin_width, c.bin_height>> = S3Bin THEN S3Items
    ELSE IF <<c.bin_width, c.bin_height>> = LongBin THEN LongItems
    ELSE (1..MaxDim) \X (1..MaxDim)

\* constructor arguments; the manager's own options are filled in by its Init
Config(d, rot, wm, h) ==
    [bin_width |-> d[1], bin_height |-> d[2], rotation |-> rot, wastemap |-> wm,
     heuristic |-> h, bin_algo |-> "none", pack_algo |-> "skyline",
     sorting |-> FALSE, sorting_heuristic |-> "DESCA"]

\* the engines explored
SkylineConfigs ==
    {Config(WideBin, rot, TRUE, "bottom_left") : rot \in BOOLEAN}
    \cup {Config(SquareBin, rot, TRUE, h) : rot \in BOOLEAN, h \in {"bottom_left", "best_fit"}}
    \cup {Config(WideBin, TRUE, FALSE, "bottom_left")}
    \cup {Config(LongBin, TRUE, TRUE, "bottom_left")}
    \cup {Config(S3Bin, rot, TRUE, h) : rot \in BOOLEAN, h \in {"bottom_left", "best_fit"}}

\* the engine BinManager._bin_factory builds for pack_algo = 'skyline'
_bin_factory(c) ==
    Skyline(c.bin_width, c.bin_height, c.rotation, c.wastemap, c.heuristic)

---------------------------------------------------------------------------
(* One Skyline engine driven directly through insert *)

InitSkyline ==
    /\ cfg \in SkylineConfigs
    /\ bins = <<_bin_factory(cfg)>>
    /\ objs = <<>>
    /\ mitems = <<>>
    /\ pc = 0
    /\ nexec = 0
    /\ log = <<>>
    /\ result = "constructed"

\* the effect of bins[1].insert(item) with outcome r
InsertDone(id, item, r) ==
    /\ bins' = <<r.eng>>
    /\ objs' = Append(objs, r.item)
    /\ log' = Append(log, LogInsert(1, id, item, r))
    /\ result' = r.res

\* a caller creates an Item(w, h) and calls bins[1].insert(item)
SkylineInsert ==
    \E sz \in SizesFor(cfg), horizontal \in BOOLEAN, merge \in BOOLEAN :
        /\ Len(objs) < MaxItems
        /\ InsertDone(Len(objs) + 1, Item(sz[1], sz[2]),
                      insert(bins[1], Len(objs) + 1, Item(sz[1], sz[2]), horizontal, merge))
        /\ UNCHANGED <<cfg, mitems, pc, nexec>>

NextSkyline == SkylineInsert

SpecSkyline == InitSkyline /\ [][NextSkyline]_vars

---------------------------------------------------------------------------
(* BinManager (binmanager.py) *)

\* the sort key of BinManager.items_sort for heuristic sh, as a pair compared
\* like a fraction: every key but the side ratio has denominator 1
SortKey(sh, el) ==
    LET shorter == IF el.width < el.height THEN el.width ELSE el.height
        longer == IF el.width > el.height THEN el.width ELSE el.height
        diff == IF el.width >= el.height THEN el.width - el.height
                ELSE el.height - el.width
    IN  CASE sh \in {"ASCA", "DESCA"} -> <<el.width * el.height, 1>>
          [] sh \in {"ASCSS", "DESCSS"} -> <<shorter, 1>>
          [] sh \in {"ASCLS", "DESCLS"} -> <<longer, 1>>
          [] sh \in {"ASCPERIM", "DESCPERIM"} -> <<(2 * el.width) + (2 * el.height), 1>>
          [] sh \in {"ASCDIFF", "DESCDIFF"} -> <<diff, 1>>
          [] sh \in {"ASCRATIO", "DESCRATIO"} -> <<el.width, el.height>>
          [] OTHER -> <<el.width * el.height, 1>>

\* key a < key b
KeyLess(a, b) == a[1] * b[2] < b[1] * a[2]

\* reverse=... of the branch items_sort takes; the fallback is DESCA
SortReverse(sh) ==
    sh \notin {"ASCA", "ASCSS", "ASCLS", "ASCPERIM", "ASCDIFF", "ASCRATIO"}

\* a descending sort done as an ascending sort read backwards: equal keys come
\* out in reverse input order
RECURSIVE SortIntoReversed(_, _, _, _)
SortIntoReversed(sorted, rest, heap, sh) ==
    IF rest = <<>> THEN sorted
    ELSE LET el == Head(rest)
             k == SortKey(sh, heap[el])
             stays(e) == IF SortReverse(sh) THEN KeyLess(k, SortKey(sh, heap[e]))
                         ELSE ~KeyLess(k, SortKey(sh, heap[e]))
             n == Cardinality({i \in 1..Len(sorted) : stays(sorted[i])})
         IN  SortIntoReversed(SubSeq(sorted, 1, n) \o <<el>> \o SubSeq(sorted, n + 1, Len(sorted)),
                              Tail(rest), heap, sh)

\* list.sort(key, reverse): stable in both directions; ids are sorted by the keys
\* of the objects they name, each id placed after the ids that must stay before it
RECURSIVE SortInto(_, _, _, _)
SortInto(sorted, rest, heap, sh) ==
    IF rest = <<>> THEN sorted
    ELSE LET el == Head(rest)
             k == SortKey(sh, heap[el])
             stays(e) == IF SortReverse(sh) THEN ~KeyLess(SortKey(sh, heap[e]), k)
                         ELSE ~KeyLess(k, SortKey(sh, heap[e]))
             n == Cardinality({i \in 1..Len(sorted) : stays(sorted[i])})
         IN  SortInto(SubSeq(sorted, 1, n) \o <<el>> \o SubSeq(sorted, n + 1, Len(sorted)),
                      Tail(rest), heap, sh)

\* BinManager.items_sort
items_sort(items, heap, sh) == SortInto(<<>>, items, heap, sh)

\* what a manager does with the outcome of an engine's insert
Raised(r) == IF r.res \in {"True", "False"} THEN "none" ELSE r.res

\* BinManager._bin_first_fit, lines 151-152: a new bin is appended and receives
\* the item; r is the outcome of its insert, which the code does not look at
FirstFitNewBin(st, id, b, r) ==
    [bins |-> Append(st.bins, r.eng), item |-> r.item,
     log |-> Append(st.log, LogInsert(b, id, st.item, r)), raised |-> Raised(r)]

\* BinManager._bin_first_fit, lines 147-149: bin b was tried with outcome r
FirstFitTried(st, id, b, r) ==
    [bins |-> [st.bins EXCEPT ![b] = r.eng], item |-> r.item,
     log |-> Append(st.log, LogInsert(b, id, st.item, r)), raised |-> Raised(r)]

\* the for loop of BinManager._bin_first_fit from bin b on, then lines 150-152;
\* st carries the bins, the item, the log and the exception raised, if any
RECURSIVE FirstFitFrom(_, _, _, _, _, _), FirstFitNext(_, _, _, _, _, _)
FirstFitFrom(st, c, id, b, horizontal, merge) ==
    IF b > Len(st.bins)
    THEN FirstFitNewBin(st, id, b, insert(_bin_factory(c), id, st.item, horizontal, merge))
    ELSE FirstFitNext(FirstFitTried(st, id, b,
                          insert(st.bins[b], id, st.item, horizontal, merge)),
                      c, id, b, horizontal, merge)

\* FirstFitNext that goes on to the next bin after a True
FirstFitNextNoBreak(st, c, id, b, horizontal, merge) ==
    IF st.raised # "none" THEN st
    ELSE FirstFitFrom(st, c, id, b + 1, horizontal, merge)

\* after bin b was tried: stop on True or on an exception, else try the next bin
FirstFitNext(st, c, id, b, horizontal, merge) ==
    IF st.raised # "none" \/ st.log[Len(st.log)].res = "True" THEN st
    ELSE FirstFitFrom(st, c, id, b + 1, horizontal, merge)

\* BinManager._bin_first_fit
_bin_first_fit(st, c, id, horizontal, merge) ==
    FirstFitFrom(st, c, id, 1, horizontal, merge)

\* item_fits that never tries the rotated item
item_fits_upright(c, item) ==
    item.width <= c.bin_width /\ item.height <= c.bin_height

\* BinManager._bin_best_fit, lines 161-168
item_fits(c, item) ==
    \/ item.width <= c.bin_width /\ item.height <= c.bin_height
    \/ c.rotation /\ item.height <= c.bin_width /\ item.width <= c.bin_height

\* BinManager._bin_best_fit, lines 172-176: the bins that report a score
Scores(bs, item) ==
    SelectSeq([b \in 1..Len(bs) |-> [bin |-> b, s |-> _find_best_score(bs[b], item)]],
              LAMBDA e : e.s.found)

\* the log of the score queries of lines 173-174
RECURSIVE LogScoresFrom(_, _, _, _, _)
LogScoresFrom(lg, bs, id, item, b) ==
    IF b > Len(bs) THEN lg
    ELSE LogScoresFrom(Append(lg, LogScore(b, id, item, _find_best_score(bs[b], item).found)),
                       bs, id, item, b + 1)

\* BinManager._bin_best_fit, lines 178-179: the insert into the best bin had
\* outcome r
BestFitInserted(st, lg, id, best_bin, r) ==
    [bins |-> [st.bins EXCEPT ![best_bin] = r.eng], item |-> r.item,
     log |-> Append(lg, LogInsert(best_bin, id, st.item, r)), raised |-> Raised(r)]

\* BinManager._bin_best_fit, lines 181-184: the insert into a new bin had
\* outcome r; the bin is appended only if that insert did not raise
BestFitNewBin(st, lg, id, r) ==
    [bins |-> IF Raised(r) = "none" THEN Append(st.bins, r.eng) ELSE st.bins,
     item |-> r.item,
     log |-> Append(lg, LogInsert(Len(st.bins) + 1, id, st.item, r)),
     raised |-> Raised(r)]

\* BinManager._bin_best_fit, line 178: min(scores, key=score), the bin it names
BestBin(scores) == scores[ArgMin([k \in 1..Len(scores) |-> scores[k].s.score])].bin

\* BinManager._bin_best_fit, lines 177-184, given the scores and the log so far
BestFitDispatch(st, c, id, scores, lg, horizontal, merge) ==
    IF scores # <<>>
    THEN BestFitInserted(st, lg, id, BestBin(scores),
             insert(st.bins[BestBin(scores)], id, st.item, horizontal, merge))
    ELSE BestFitNewBin(st, lg, id, insert(_bin_factory(c), id, st.item, horizontal, merge))

\* BinManager._bin_best_fit
_bin_best_fit(st, c, id, horizontal, merge) ==
    IF ~item_fits(c, st.item) THEN [st EXCEPT !.raised = "ValueError"]
    ELSE BestFitDispatch(st, c, id, Scores(st.bins, st.item),
                         LogScoresFrom(st.log, st.bins, id, st.item, 1), horizontal, merge)

\* self.bin_sel_algo, chosen by BinManager.__init__; for any other bin_algo the
\* attribute is never set and reading it in execute raises AttributeError
bin_sel_algo(st, c, id, horizontal, merge) ==
    IF c.bin_algo = "bin_best_fit" THEN _bin_best_fit(st, c, id, horizontal, merge)
    ELSE IF c.bin_algo = "bin_first_fit" THEN _bin_first_fit(st, c, id, horizontal, merge)
    ELSE [st EXCEPT !.raised = "AttributeError"]

\* item sizes offered to a manager: on the wide bin (1,3) fits only rotated and
\* (5,1) fits in no orientation
ManagerSizes(c) ==
    IF <<c.bin_width, c.bin_height>> = S5Bin THEN S5Items
    ELSE {<<2, 2>>, <<1, 3>>, <<5, 1>>}

BinAlgos == {"bin_best_fit", "bin_first_fit"}

\* sorting and sorting_heuristic as given to the constructor
SortingOptions == {<<FALSE, "DESCA">>, <<TRUE, "DESCA">>, <<TRUE, "ASCSS">>}

\* the constructor arguments explored: every combination on the wide bin, the
\* manager of scenario S5, and that manager without sorting
ManagerConfigs ==
    {[Config(WideBin, rot, TRUE, "bottom_left") EXCEPT
          !.bin_algo = ba, !.sorting = so[1], !.sorting_heuristic = so[2]] :
        rot \in BOOLEAN, ba \in BinAlgos, so \in SortingOptions}
    \cup
    {[Config(S5Bin, rot, TRUE, "bottom_left") EXCEPT
          !.bin_algo = "bin_best_fit", !.sorting = TRUE] : rot \in BOOLEAN}
    \cup
    {[Config(S5Bin, FALSE, TRUE, "bottom_left") EXCEPT !.bin_algo = "bin_best_fit"]}

\* constructor arguments outside the documented options, one at a time: an
\* unknown bin_algo, pack_algo, heuristic ('default' is BinManager's own default)
\* or sorting_heuristic, and a bin without width
OddConfigs ==
    {[Config(WideBin, TRUE, TRUE, "bottom_left") EXCEPT !.bin_algo = "bin_worst_fit"],
     [Config(WideBin, TRUE, TRUE, "bottom_left") EXCEPT
          !.bin_algo = "bin_best_fit", !.pack_algo = "stack"],
     [Config(WideBin, TRUE, TRUE, "default") EXCEPT !.bin_algo = "bin_best_fit"],
     [Config(WideBin, TRUE, TRUE, "bottom_left") EXCEPT
          !.bin_algo = "bin_first_fit", !.sorting = TRUE, !.sorting_heuristic = "RANDOM"],
     [Config(<<0, 2>>, TRUE, TRUE, "bottom_left") EXCEPT !.bin_algo = "bin_best_fit"]}

\* Skyline.__init__, lines 39-44: raise ValueError('No such heuristic!')
SkylineRaises(heuristic) == heuristic \notin {"bottom_left", "best_fit"}

\* BinManager._bin_factory raises ValueError: no branch for the algorithm (line
\* 138), or the engine's constructor raised
FactoryRaises(c) == c.pack_algo # "skyline" \/ SkylineRaises(c.heuristic)

\* BinManager.__init__: the only thing that can raise is the self._bin_factory()
\* of line 58; pc = -1 then stands for "no manager was constructed"
InitManager ==
    /\ cfg \in ManagerConfigs \cup OddConfigs
    /\ bins = IF FactoryRaises(cfg) THEN <<>> ELSE <<_bin_factory(cfg)>>
    /\ objs = <<>>
    /\ mitems = <<>>
    /\ pc = IF FactoryRaises(cfg) THEN -1 ELSE 0
    /\ nexec = 0
    /\ log = <<>>
    /\ result = IF FactoryRaises(cfg) THEN "ValueError" ELSE "constructed"

\* BinManager.add_items(*items) with one or two new Items
AddItems ==
    \E n \in 1..2 : \E sizes \in [1..n -> ManagerSizes(cfg)] :
        /\ pc = 0
        /\ Len(objs) + n <= MaxManagerItems
        /\ LET heap == objs \o [k \in 1..n |-> Item(sizes[k][1], sizes[k][2])]
               appended == mitems \o [k \in 1..n |-> Len(objs) + k]
           IN  /\ objs' = heap
               /\ mitems' = IF cfg.sorting
                            THEN items_sort(appended, heap, cfg.sorting_heuristic)
                            ELSE appended
        /\ result' = "added"
        /\ UNCHANGED <<cfg, bins, pc, nexec, log>>

\* BinManager.execute is entered
ExecuteBegin ==
    /\ pc = 0
    /\ nexec < MaxExecutes
    /\ pc' = 1
    /\ nexec' = nexec + 1
    /\ result' = "running"
    /\ UNCHANGED <<cfg, objs, bins, mitems, log>>

\* the effect of self.bin_sel_algo(item) that ended in st
Dispatched(id, st) ==
    /\ bins' = st.bins
    /\ objs' = [objs EXCEPT ![id] = st.item]
    /\ log' = st.log
    /\ pc' = IF st.raised = "none" THEN pc + 1 ELSE 0
    /\ result' = IF st.raised = "none" THEN "running" ELSE st.raised

\* one turn of the loop of BinManager.execute: self.bin_sel_algo(item); an
\* exception ends execute
ExecuteItem ==
    \E horizontal \in BOOLEAN, merge \in BOOLEAN :
        /\ pc \in 1..Len(mitems)
        /\ Dispatched(mitems[pc],
                      bin_sel_algo([bins |-> bins, item |-> objs[mitems[pc]], log |-> log,
                                    raised |-> "none"], cfg, mitems[pc], horizontal, merge))
        /\ UNCHANGED <<cfg, mitems, nexec>>

\* the loop of BinManager.execute is over: execute returns
ExecuteEnd ==
    /\ pc = Len(mitems) + 1
    /\ pc' = 0
    /\ result' = "done"
    /\ UNCHANGED <<cfg, objs, bins, mitems, nexec, log>>

NextManager == AddItems \/ ExecuteBegin \/ ExecuteItem \/ ExecuteEnd

SpecManager == InitManager /\ [][NextManager]_vars

---------------------------------------------------------------------------
(* A sorting BinManager under every sort key *)

\* the sort keys BinManager.items_sort names
SortingHeuristics ==
    {"ASCA", "DESCA", "ASCSS", "DESCSS", "ASCLS", "DESCLS", "ASCPERIM", "DESCPERIM",
     "ASCDIFF", "DESCDIFF", "ASCRATIO", "DESCRATIO"}

\* managers with sorting on, one for each key and one for a key items_sort does
\* not name
SortingConfigs ==
    {[Config(WideBin, TRUE, TRUE, "bottom_left") EXCEPT
          !.bin_algo = "bin_first_fit", !.sorting = TRUE, !.sorting_heuristic = sh] :
        sh \in SortingHeuristics \cup {"RANDOM"}}

InitSorting ==
    /\ cfg \in SortingConfigs
    /\ bins = <<_bin_factory(cfg)>>
    /\ objs = <<>>
    /\ mitems = <<>>
    /\ pc = 0
    /\ nexec = 0
    /\ log = <<>>
    /\ result = "constructed"

SpecSorting == InitSorting /\ [][NextManager]_vars

---------------------------------------------------------------------------
(* Properties of the Skyline engine *)

\* the Item objects of bin b, in placement order
Placed(b) == [k \in 1..Len(bins[b].items) |-> objs[bins[b].items[k]]]

\* the open interiors of two placed rectangles meet
Overlap(p, q) ==
    /\ p.x < q.x + q.width
    /\ q.x < p.x + p.width
    /\ p.y < q.y + q.height
    /\ q.y < p.y + p.height

Inside(p, eng) ==
    /\ 0 <= p.x
    /\ p.x + p.width <= eng.width
    /\ 0 <= p.y
    /\ p.y + p.height <= eng.height

RECURSIVE SumArea(_)
SumArea(items) ==
    IF items = <<>> THEN 0
    ELSE Head(items).width * Head(items).height + SumArea(Tail(items))

\* the segments tile [0, width]: first starts at 0, each next one starts where
\* the previous one ends, the last one ends at width
Tiles(skyline, width) ==
    /\ Len(skyline) >= 1
    /\ skyline[1].x = 0
    /\ \A k \in 1..(Len(skyline) - 1) : skyline[k + 1].x = skyline[k].x + skyline[k].width
    /\ skyline[Len(skyline)].x + skyline[Len(skyline)].width = width

\* no call so far has raised
NoRaise == \A k \in 1..Len(log) : log[k].res \in {"True", "False"}

\* the sizes offered so far, in call order
Offered == [k \in 1..Len(log) |-> <<log[k].width, log[k].height>>]

\* C1: Non-overlap: in every state reached by insert calls the open interiors of
\* any two items in one bin's items list are disjoint.  Stated here for the
\* call sequences in which every insert returned, the least the claim says.
C1_NonOverlap ==
    NoRaise =>
        \A b \in 1..Len(bins) : \A i, j \in 1..Len(bins[b].items) :
            i < j => ~Overlap(Placed(b)[i], Placed(b)[j])

\* C2: Containment: every item in a bin's items list lies inside the bin, with
\* the width and height it has after any rotation applied by insert.
C2_Containment ==
    \A b \in 1..Len(bins) : \A i \in 1..Len(bins[b].items) : Inside(Placed(b)[i], bins[b])

\* C2 witness: a bin holding an item the skyline path rotated, an item the
\* wastemap took, and an item whose top edge is the bin's top edge
C2_Witness ==
    /\ \E i \in 1..Len(bins[1].items) : Placed(1)[i].rotated /\ Placed(1)[i].y > 0
    /\ \E k \in 1..Len(log) : log[k].via = "wastemap"
    /\ \E i \in 1..Len(bins[1].items) :
           Placed(1)[i].y + Placed(1)[i].height = bins[1].height

\* C3: Skyline partition: initially and after every successful insert the
\* segments, sorted by x, tile [0, binW] exactly.
C3_Partition ==
    result \in {"constructed", "True"} =>
        \A b \in 1..Len(bins) : Tiles(bins[b].skyline, bins[b].width)

\* C4: Merged skyline: after every successful insert no two consecutive
\* segments of the skyline sequence have the same y.
C4_Merged ==
    result = "True" =>
        \A b \in 1..Len(bins) : \A k \in 1..(Len(bins[b].skyline) - 1) :
            bins[b].skyline[k].y # bins[b].skyline[k + 1].y

\* C5: Efficiency bound: 0 <= free_area <= area in every state reached by insert
\* calls, i.e. the placed items' total area never exceeds the bin's area.  Stated
\* here for the call sequences in which every insert returned, the least the
\* claim says.
C5_EfficiencyBound ==
    NoRaise =>
        \A b \in 1..Len(bins) : 0 <= bins[b].free_area /\ bins[b].free_area <= bins[b].area

\* C6: Area accounting: the areas of the items in a bin's items list sum to
\* area - free_area, whichever path placed them.
C6_AreaAccounting ==
    \A b \in 1..Len(bins) : SumArea(Placed(b)) = bins[b].area - bins[b].free_area

\* C6 witness: a bin that has placed items through the skyline and through the
\* wastemap
C6_Witness ==
    /\ \E k \in 1..Len(log) : log[k].via = "wastemap" /\ log[k].res = "True"
    /\ \E k \in 1..Len(log) : log[k].via = "skyline" /\ log[k].res = "True"
    /\ bins[1].free_area < bins[1].area

\* the engine of scenario S3 has received exactly the scenario's three items
S3Ran ==
    /\ <<cfg.bin_width, cfg.bin_height>> = S3Bin
    /\ cfg.heuristic = "bottom_left" /\ cfg.rotation /\ cfg.wastemap
    /\ Offered = <<<<3, 5>>, <<5, 3>>, <<2, 2>>>>

\* item i of the first bin has the given size and position
PlacedAs(i, w, h, x, y) ==
    /\ i <= Len(bins[1].items)
    /\ Placed(1)[i].width = w /\ Placed(1)[i].height = h
    /\ Placed(1)[i].x = x /\ Placed(1)[i].y = y

\* C7 as stated: in scenario S3 the first item is placed at (0,0), the second is
\* rotated to (3,5) and placed at (0,5), the third is placed at (3,0); all three
\* inserts succeed and efficiency is 34/50.
C7_S3_AsStated ==
    S3Ran =>
        /\ \A k \in 1..3 : log[k].res = "True"
        /\ Placed(1)[1].x = 0 /\ Placed(1)[1].y = 0
        /\ PlacedAs(2, 3, 5, 0, 5) /\ Placed(1)[2].rotated
        /\ Placed(1)[3].x = 3 /\ Placed(1)[3].y = 0
        /\ bins[1].area - bins[1].free_area = 34 /\ bins[1].area = 50

\* C7 amended: in scenario S3 the first item is rotated to (5,3) and placed at
\* (0,0), the second stays (5,3) and is placed at (0,3), the third is placed at
\* (0,6); all three inserts succeed and efficiency is 34/50.
C7_S3_Amended ==
    S3Ran =>
        /\ \A k \in 1..3 : log[k].res = "True"
        /\ PlacedAs(1, 5, 3, 0, 0) /\ Placed(1)[1].rotated
        /\ PlacedAs(2, 5, 3, 0, 3) /\ ~Placed(1)[2].rotated
        /\ PlacedAs(3, 2, 2, 0, 6)
        /\ bins[1].area - bins[1].free_area = 34 /\ bins[1].area = 50

\* C7 witness: scenario S3 has run to its end
C7_Witness == S3Ran /\ Len(bins[1].items) = 3

---------------------------------------------------------------------------
(* Properties of the BinManager *)

\* the sizes of the Items given to the manager, in the order they were created
Given == [k \in 1..Len(objs) |-> <<objs[k].width, objs[k].height>>]

\* the sizes of the items of bin b, in placement order
BinSizes(b) == [k \in 1..Len(bins[b].items) |-> <<Placed(b)[k].width, Placed(b)[k].height>>]

\* the manager of scenario S5 was given the scenario's items and execute() has
\* ended, by returning or by raising
S5Ran ==
    /\ <<cfg.bin_width, cfg.bin_height>> = S5Bin
    /\ cfg.bin_algo = "bin_best_fit" /\ cfg.sorting /\ cfg.sorting_heuristic = "DESCA"
    /\ Given = <<<<3, 3>>, <<4, 4>>, <<2, 2>>, <<4, 4>>>>
    /\ nexec = 1 /\ pc = 0 /\ result \notin {"constructed", "added"}

\* C8: Scenario S5 on the skyline engine: the items are processed in the order
\* (4,4), (4,4), (3,3), (2,2) and execute() completes with exactly 3 bins:
\* B0 holds one (4,4), B1 the other (4,4), B2 holds (3,3) and (2,2).
C8_S5 ==
    S5Ran =>
        /\ result = "done"
        /\ [k \in 1..Len(mitems) |-> Given[mitems[k]]]
               = <<<<4, 4>>, <<4, 4>>, <<3, 3>>, <<2, 2>>>>
        /\ Len(bins) = 3
        /\ BinSizes(1) = <<<<4, 4>>>>
        /\ BinSizes(2) = <<<<4, 4>>>>
        /\ BinSizes(3) = <<<<3, 3>>, <<2, 2>>>>

\* the item fits the bin in an orientation the configuration allows
FitsAllowed(c, item) ==
    \E o \in {<<item.width, item.height>>}
             \cup (IF c.rotation THEN {<<item.height, item.width>>} ELSE {}) :
        o[1] <= c.bin_width /\ o[2] <= c.bin_height

\* execute() is about to dispatch an item under bin selection algorithm ba
Dispatching(ba) == pc \in 1..Len(mitems) /\ cfg.bin_algo = ba

\* C9: under bin_first_fit an item that fits the bin in no allowed orientation
\* makes execute() raise; the item is not silently dropped with an empty bin
\* left behind.
C9_FirstFitOversized ==
    [][(Dispatching("bin_first_fit") /\ ~FitsAllowed(cfg, objs[mitems[pc]]))
           => (pc' = 0 /\ result' \notin {"running", "done"})]_vars

\* C10: under bin_best_fit an item that exceeds the bin in every allowed
\* orientation raises the input error before any bin is queried or modified;
\* an item that fits in some allowed orientation never raises this error.
C10_BestFitOversized ==
    [][Dispatching("bin_best_fit") =>
           IF FitsAllowed(cfg, objs[mitems[pc]])
           THEN result' # "ValueError"
           ELSE /\ result' = "ValueError" /\ pc' = 0
                /\ bins' = bins /\ objs' = objs /\ log' = log]_vars

\* C10 witness: with rotation allowed, execute() has raised the input error on a
\* manager that had already opened a second bin and placed items
C10_Witness ==
    /\ cfg.bin_algo = "bin_best_fit" /\ cfg.rotation
    /\ result = "ValueError"
    /\ Len(bins) >= 2
    /\ \E k \in 1..Len(log) : log[k].op = "insert" /\ log[k].res = "True"
    /\ \E id \in 1..Len(objs) : objs[id].rotated

\* no call so far has raised, and the last operation did not raise the input error
ManagerNoRaise == NoRaise /\ result # "ValueError"

\* C11: Ownership: after any sequence of add_items and execute calls, execute
\* called more than once included, no item is in the items lists of two bins and
\* no item is twice in one bin.  Stated here for the call sequences in which no
\* call raised, the least the claim says.
C11_Ownership ==
    (ManagerNoRaise /\ pc = 0) =>
        /\ \A b1, b2 \in 1..Len(bins) : \A i \in 1..Len(bins[b1].items) :
               \A j \in 1..Len(bins[b2].items) :
                   b1 # b2 => bins[b1].items[i] # bins[b2].items[j]
        /\ \A b \in 1..Len(bins) : \A i, j \in 1..Len(bins[b].items) :
               i # j => bins[b].items[i] # bins[b].items[j]

\* the calls the step under way adds to the log
NewCalls == SubSeq(log', Len(log) + 1, Len(log'))

\* C12: Bin-first-fit monotonicity: under bin_first_fit the inserts of one item
\* go to bins 1, 2, ... in index order and all but the last return false; when a
\* bin is appended every bin before it was tried; an item accepted by an existing
\* bin is placed in the first bin whose insert returns true, no later bin is
\* tried or changed and no bin is appended.
C12_FirstFitMonotone ==
    [][Dispatching("bin_first_fit") =>
           /\ \A k \in 1..Len(NewCalls) :
                  /\ NewCalls[k].op = "insert"
                  /\ NewCalls[k].bin = k
                  /\ NewCalls[k].item = mitems[pc]
           /\ \A k \in 1..(Len(NewCalls) - 1) : NewCalls[k].res = "False"
           /\ Len(bins') \in {Len(bins), Len(bins) + 1}
           /\ Len(bins') = Len(bins) + 1 => Len(NewCalls) = Len(bins) + 1
           /\ (Len(bins') = Len(bins) /\ result' = "running") =>
                  /\ Len(NewCalls) \in 1..Len(bins)
                  /\ NewCalls[Len(NewCalls)].res = "True"
                  /\ bins'[Len(NewCalls)].items
                         = Append(bins[Len(NewCalls)].items, mitems[pc])
                  /\ \A b \in 1..Len(bins) : b # Len(NewCalls) => bins'[b] = bins[b]]_vars

\* C12 witness: under bin_first_fit an item was refused by the first bin and
\* accepted by the second, which an earlier item had caused to be appended
\* after the first bin refused it
C12_Witness ==
    /\ cfg.bin_algo = "bin_first_fit"
    /\ Len(bins) >= 2
    /\ \E j, k \in 1..(Len(log) - 1) :
           /\ j + 1 < k
           /\ log[j].bin = 1 /\ log[j].res = "False"
           /\ log[j + 1].bin = 2 /\ log[j + 1].item = log[j].item
           /\ log[k].bin = 1 /\ log[k].res = "False"
           /\ log[k + 1].bin = 2 /\ log[k + 1].res = "True"
           /\ log[k + 1].item = log[k].item /\ log[k].item # log[j].item

\* the existing bins whose _find_best_score for the item is not None
Scored(item) == {b \in 1..Len(bins) : _find_best_score(bins[b], item).found}

\* score s is lower than score t, or equal to it (scores are pairs)
ScoreLE(s, t) == s[1] < t[1] \/ (s[1] = t[1] /\ s[2] <= t[2])

\* the bin of lowest score, the lowest index among equals
LowestScored(item) ==
    CHOOSE b \in Scored(item) : \A c \in Scored(item) :
        LET sb == _find_best_score(bins[b], item).score
            sc == _find_best_score(bins[c], item).score
        IN  IF c < b THEN ~ScoreLE(sb, sc) ELSE ScoreLE(sb, sc)

\* C13: Bin-best-fit dispatch: an item that passes validation goes into the
\* existing bin of lowest _find_best_score (lowest index on ties) and no bin is
\* appended; if no existing bin reports a score, and only then, a new bin is
\* appended and receives the item.
C13_BestFitDispatch ==
    [][(Dispatching("bin_best_fit") /\ FitsAllowed(cfg, objs[mitems[pc]])) =>
           IF Scored(objs[mitems[pc]]) # {}
           THEN /\ Len(bins') = Len(bins)
                /\ bins'[LowestScored(objs[mitems[pc]])].items
                       = Append(bins[LowestScored(objs[mitems[pc]])].items, mitems[pc])
                /\ \A b \in 1..Len(bins) :
                       b # LowestScored(objs[mitems[pc]]) => bins'[b] = bins[b]
           ELSE /\ Len(bins') = Len(bins) + 1
                /\ bins'[Len(bins')].items = <<mitems[pc]>>
                /\ \A b \in 1..Len(bins) : bins'[b] = bins[b]]_vars

\* the constructor arguments name an option that does not exist, or a bin
\* without positive width and height
BadOptions(c) ==
    \/ c.bin_algo \notin {"bin_best_fit", "bin_first_fit"}
    \/ c.pack_algo \notin {"guillotine", "shelf", "maximal_rectangle", "skyline"}
    \/ c.heuristic \notin {"bottom_left", "best_fit"}
    \/ c.sorting_heuristic \notin SortingHeuristics
    \/ c.bin_width <= 0
    \/ c.bin_height <= 0

\* C14: Configuration errors: a BinManager given an unknown bin_algo, pack_algo,
\* heuristic or sorting_heuristic, or a non-positive bin_width or bin_height,
\* raises at construction: there is never a manager to call add_items or
\* execute on.
C14_ConfigurationErrors ==
    BadOptions(cfg) => (pc = -1 /\ result = "ValueError" /\ bins = <<>>)

\* the key named sh of an item of width w and height h, as a fraction <<n, d>>
KeyNamed(sh, w, h) ==
    CASE sh \in {"ASCA", "DESCA"} -> <<w * h, 1>>
      [] sh \in {"ASCSS", "DESCSS"} -> <<Min(w, h), 1>>
      [] sh \in {"ASCLS", "DESCLS"} -> <<Max(w, h), 1>>
      [] sh \in {"ASCPERIM", "DESCPERIM"} -> <<2 * (w + h), 1>>
      [] sh \in {"ASCDIFF", "DESCDIFF"} -> <<Max(w, h) - Min(w, h), 1>>
      [] sh \in {"ASCRATIO", "DESCRATIO"} -> <<w, h>>

\* the key the manager sorts by: an unknown name stands for descending area
SelectedKey == IF cfg.sorting_heuristic \in SortingHeuristics THEN cfg.sorting_heuristic ELSE "DESCA"

Ascending == SelectedKey \in {"ASCA", "ASCSS", "ASCLS", "ASCPERIM", "ASCDIFF", "ASCRATIO"}

\* the selected key of the item at place i of the manager's list
KeyAt(i) == KeyNamed(SelectedKey, objs[mitems[i]].width, objs[mitems[i]].height)

\* the manager's list is ordered by the selected key in the selected direction,
\* equal keys in input order (ids are given in input order)
Sorted ==
    \A i, j \in 1..Len(mitems) :
        i < j =>
            IF KeyAt(i)[1] * KeyAt(j)[2] = KeyAt(j)[1] * KeyAt(i)[2]
            THEN mitems[i] < mitems[j]
            ELSE IF Ascending THEN KeyAt(i)[1] * KeyAt(j)[2] < KeyAt(j)[1] * KeyAt(i)[2]
                 ELSE KeyAt(i)[1] * KeyAt(j)[2] > KeyAt(j)[1] * KeyAt(i)[2]

\* the items of the calls in the log, each run of calls for one item counted once
RECURSIVE OfferedItems(_)
OfferedItems(lg) ==
    IF lg = <<>> THEN <<>>
    ELSE IF Len(lg) > 1 /\ lg[Len(lg) - 1].item = lg[Len(lg)].item
         THEN OfferedItems(SubSeq(lg, 1, Len(lg) - 1))
         ELSE Append(OfferedItems(SubSeq(lg, 1, Len(lg) - 1)), lg[Len(lg)].item)

\* C15: Sorting: with sorting enabled, after any sequence of add_items calls the
\* manager's list is ordered by the selected key in the selected direction (an
\* unknown key as descending area), equal keys in input order, ascending or
\* descending; and execute() offers the items to the bin selection algorithm in
\* exactly the order of the list.
C15_Sorting ==
    /\ (cfg.sorting /\ nexec = 0 /\ pc = 0) => Sorted
    /\ (cfg.sorting /\ nexec = 1 /\ result # "added") =>
           /\ Len(OfferedItems(log)) <= Len(mitems)
           /\ OfferedItems(log) = SubSeq(mitems, 1, Len(OfferedItems(log)))
           /\ result = "done" => OfferedItems(log) = mitems

\* C15 witness: a descending sort has put three items in an order that is not
\* the input order, two of them with equal keys, and execute() has offered them
\* all
C15_Witness ==
    /\ cfg.sorting /\ ~Ascending /\ nexec = 1 /\ result = "done"
    /\ Len(mitems) >= 3
    /\ \E i \in 1..(Len(mitems) - 1) : mitems[i] > mitems[i + 1]
    /\ \E i \in 1..(Len(mitems) - 1) :
           /\ Given[mitems[i]] # Given[mitems[i + 1]]
           /\ KeyNamed(SelectedKey, Given[mitems[i]][1], Given[mitems[i]][2])
                  = KeyNamed(SelectedKey, Given[mitems[i + 1]][1], Given[mitems[i + 1]][2])

\* C16: Wastemap guard: an engine constructed with wastemap disabled skips the
\* wastemap step of insert and goes on to the skyline placement: no insert
\* raises, and the insert into the empty bin returns true for an item that fits
\* the bin in an allowed orientation and false for one that does not.
C16_WastemapGuard ==
    (~cfg.wastemap /\ bins # <<>> /\ Len(log) >= 1) =>
        /\ \A k \in 1..Len(log) : log[k].op = "insert" => log[k].res \in {"True", "False"}
        /\ log[1].op = "insert" =>
               log[1].res = IF FitsAllowed(cfg, [width |-> log[1].width,
                                                 height |-> log[1].height])
                            THEN "True" ELSE "False"

\* the segments of the skyline whose x-range meets [x, x + w)
Spanned(skyline, x, w) ==
    {k \in 1..Len(skyline) : skyline[k].x < x + w /\ x < skyline[k].x + skyline[k].width}

\* the highest y among the spanned segments
SpanY(skyline, x, w) ==
    CHOOSE y \in {skyline[k].y : k \in Spanned(skyline, x, w)} :
        \A k \in Spanned(skyline, x, w) : skyline[k].y <= y

\* what the fit test for segment i and dimensions (w, h) is to answer on eng
FitAsSpecified(eng, i, w, h) ==
    /\ eng.skyline[i].x + w <= eng.width
    /\ SpanY(eng.skyline, eng.skyline[i].x, w) + h <= eng.height

\* C17: Fit test: in every reachable state, for every segment i and dimensions
\* (w, h), _check_fit succeeds iff seg[i].x + w <= binW and y + h <= binH, y being
\* the highest seg.y among the segments whose x-range meets [seg[i].x,
\* seg[i].x + w); on success it returns that y, and no placed item within that
\* x-range reaches above it.
C17_FitTest ==
    \A b \in 1..Len(bins) : \A i \in 1..Len(bins[b].skyline) :
        \A w \in 1..bins[b].width, h \in 1..bins[b].height :
            /\ _check_fit(bins[b], w, h, i).fits <=> FitAsSpecified(bins[b], i, w, h)
            /\ _check_fit(bins[b], w, h, i).fits =>
                   /\ _check_fit(bins[b], w, h, i).y
                          = SpanY(bins[b].skyline, bins[b].skyline[i].x, w)
                   /\ \A k \in 1..Len(bins[b].items) :
                          (/\ Placed(b)[k].x < bins[b].skyline[i].x + w
                           /\ bins[b].skyline[i].x < Placed(b)[k].x + Placed(b)[k].width)
                          => Placed(b)[k].y + Placed(b)[k].height
                                 <= _check_fit(bins[b], w, h, i).y

\* width and height of an item of size sz placed in orientation rot
Oriented(sz, rot) == IF rot THEN <<sz[2], sz[1]>> ELSE sz

\* the (segment, orientation) pairs at which the fit test lets an item of size
\* sz stand on engine eng
FittingCandidates(eng, sz) ==
    {c \in (1..Len(eng.skyline)) \X (IF eng.rotation THEN BOOLEAN ELSE {FALSE}) :
        _check_fit(eng, Oriented(sz, c[2])[1], Oriented(sz, c[2])[2], c[1]).fits}

\* where candidate c puts the item and its bottom_left score
CandidateY(eng, sz, c) == _check_fit(eng, Oriented(sz, c[2])[1], Oriented(sz, c[2])[2], c[1]).y

BottomLeftScore(eng, sz, c) ==
    <<CandidateY(eng, sz, c) + Oriented(sz, c[2])[2], eng.skyline[c[1]].width>>

\* candidate c comes before candidate d: lower score, then lower segment index,
\* then unrotated before rotated
ComesBefore(eng, sz, c, d) ==
    LET sc == BottomLeftScore(eng, sz, c)
        sd == BottomLeftScore(eng, sz, d)
    IN  \/ sc[1] < sd[1]
        \/ sc[1] = sd[1] /\ sc[2] < sd[2]
        \/ sc = sd /\ c[1] < d[1]
        \/ sc = sd /\ c[1] = d[1] /\ ~c[2] /\ d[2]

Chosen(eng, sz) ==
    CHOOSE c \in FittingCandidates(eng, sz) :
        \A d \in FittingCandidates(eng, sz) : d # c => ComesBefore(eng, sz, c, d)

\* the call the step under way adds to the log, its item's size as given and
\* the item as the call leaves it
LastCall == log'[Len(log')]

LastSize == <<LastCall.width, LastCall.height>>

LastItem == objs'[Len(objs')]

C19_InsertCompletes ==
    (cfg.wastemap /\ cfg.bin_algo = "none") =>
        /\ \A k \in 1..Len(log) : log[k].res \in {"True", "False"}
        /\ \A k \in 1..Len(log) :
               (/\ k = 1
                /\ <<log[k].width, log[k].height>> = <<cfg.bin_width, cfg.bin_height>>)
               => /\ log[k].res = "True"
                  /\ \A j \in (k + 1)..Len(log) : log[j].res = "False"

\* C20: No-fit leaves the engine unchanged: whenever insert returns false the
\* skyline, the items list and free_area are what they were before the call, and
\* the item has the width, height and rotation flag it was given.
C20_NoFitUnchanged ==
    [][(/\ cfg.bin_algo = "none"
        /\ Len(log') = Len(log) + 1
        /\ LastCall.res = "False") =>
           /\ bins'[1].skyline = bins[1].skyline
           /\ bins'[1].items = bins[1].items
           /\ bins'[1].free_area = bins[1].free_area
           /\ <<LastItem.width, LastItem.height>> = LastSize
           /\ ~LastItem.rotated]_vars

\* C20 witness: with rotation allowed, a bin holding at least two items and a
\* wastemap with free rectangles has refused an item
C20_Witness ==
    /\ cfg.bin_algo = "none" /\ cfg.rotation /\ NoRaise
    /\ Len(log) >= 1 /\ log[Len(log)].res = "False"
    /\ Len(bins[1].items) >= 2
    /\ bins[1].freerects # <<>>

====
